---- MODULE Spec2Model ----
(***************************************************************************)
(* MultiTypeCollection (grr/lib/aff4_objects/multi_type_collection.py):    *)
(* a collection that stores values of several types in per-type            *)
(* sequences.  The data store, the mutation pool and the sequential        *)
(* collection are collaborators of the class; they are modelled at the     *)
(* interface the class uses.                                               *)
(***************************************************************************)
EXTENDS Integers, Sequences, FiniteSets, TLC

VARIABLES
  db,             \* data_store.DB: a set of cells [subject, attribute, value, timestamp]
  mutation_pool,  \* the caller's MutationPool: cells staged by Set, not yet flushed
  pc,             \* per caller: where its non-pooled StaticAdd stands
  deletion_pool,  \* the DeletionPool handed to OnDelete: urns marked for deletion
  nAdds,          \* number of StaticAdd calls that wrote or staged an entry
  last,           \* the most recent step of a call: its arguments and outcome
  appended,       \* history: <<type, key>> of every entry write that reached the store
  staged,         \* history: <<type, key>> of the entry writes staged in the pool
  marker_failed,  \* history: the types whose marker write failed
  completed       \* history: the types of the Adds that went through, marker included

vars == <<db, mutation_pool, pc, deletion_pool, nAdds, last, appended, staged,
          marker_failed, completed>>

-----------------------------------------------------------------------------
(* Bounds of the model. *)

MaxAdds == 2
MaxRecords == 2

\* two timestamps and two suffixes: every order of two keys occurs
Timestamps == {1, 2}
Suffixes == {5, 7}
Writers == {"w1", "w2"}
Keys == Timestamps \X Suffixes

-----------------------------------------------------------------------------
(* Values.  An rdf value is [cls, args_rdf_name, data]: its class name, for *)
(* a GrrMessage the class name of its payload ("" when it has none), and    *)
(* the payload's content.                                                   *)

None == [cls |-> "NoneType", args_rdf_name |-> "", data |-> ""]
NoneKey == <<>>
\* no value: a field of `last` that the step does not have
NoValue == [cls |-> "", args_rdf_name |-> "", data |-> ""]

PayloadClasses == {"A", "B"}
Payload(cls, data) == [cls |-> cls, args_rdf_name |-> "", data |-> data]
RawPayloads == {Payload("A", "x"), Payload("A", "y"), Payload("B", "x")}

\* rdf_flows.GrrMessage(payload=p)
GrrMessage(p) ==
  IF p = None
    THEN [cls |-> "GrrMessage", args_rdf_name |-> "", data |-> ""]
    ELSE [cls |-> "GrrMessage", args_rdf_name |-> p.cls, data |-> p.data]

\* the GrrMessages callers pass: one with a payload, one without
Messages == {GrrMessage(Payload("A", "x")), GrrMessage(None)}
RdfValues == {None} \cup RawPayloads \cup Messages
TypeNames == PayloadClasses \cup {"GrrMessage"}

\* the value 1 the marker is written with
MarkerValue == [cls |-> "int", args_rdf_name |-> "", data |-> "1"]
AFF4TypeValue == [cls |-> "str", args_rdf_name |-> "", data |-> "MultiTypeCollection"]

-----------------------------------------------------------------------------
(* Names.  An attribute name is <<prefix, rest>>.  An urn is a string, held  *)
(* as the sequence of its symbols: the letters of the collection's name,    *)
(* then, for each component added to it, the separator and the component.   *)
(* A subject is an urn plus, for the row of a sequential collection's       *)
(* entry, the entry's (timestamp, suffix).                                  *)

VALUE_TYPE_PREFIX == "aff4:value_type_"
ATTRIBUTE == <<"aff4:sequential_value", "">>
AFF4_TYPE == <<"aff4:type", "">>

urn == <<"C">>

\* the marker's name without the type: one marker for every type
MarkerAttributeUntyped(value_type) == <<VALUE_TYPE_PREFIX, "">>

MarkerAttribute(value_type) == <<VALUE_TYPE_PREFIX, value_type>>
startswith(attribute, prefix) == attribute[1] = prefix

Separator == "/"

\* RDFURN.Add
Add(u, name) == u \o <<Separator, name>>

Row(u) == [urn |-> u, key |-> NoneKey]
EntryRow(u, key) == [urn |-> u, key |-> key]

\* the string s begins with the string p
IsPrefix(p, s) == Len(p) <= Len(s) /\ SubSeq(s, 1, Len(p)) = p

-----------------------------------------------------------------------------
(* The data store and the mutation pool. *)

Cell(subject, attribute, value, timestamp) ==
  [subject |-> subject, attribute |-> attribute, value |-> value,
   timestamp |-> timestamp]

\* DB.Set / MutationPool.Set with replace=True: one value per (subject, attribute)
Set(store, cell) ==
  {c \in store : ~(c.subject = cell.subject /\ c.attribute = cell.attribute)}
    \cup {cell}

\* MutationPool.Flush: every staged cell is written
FlushInto(store, pool) ==
  {c \in store : \A p \in pool :
      ~(c.subject = p.subject /\ c.attribute = p.attribute)} \cup pool

\* DB.ResolveRow(subject): the row's cells, in an order the store chooses
RowCells(store, subject) == {c \in store : c.subject = subject}

RECURSIVE Enumerations(_)
Enumerations(S) ==
  IF S = {} THEN {<<>>}
  ELSE UNION {{<<x>> \o rest : rest \in Enumerations(S \ {x})} : x \in S}

ResolveRow(store, subject) == Enumerations(RowCells(store, subject))

\* DB.ScanAttribute(subject_prefix, attribute): the subjects that carry the
\* attribute and whose urn begins with the prefix.  The store either takes the
\* prefix as the string it is given, or as a directory, the separator
\* appended; which of the two is the store's matter.
PrefixRules == {"string", "directory"}

ScanPrefix(subject_prefix, rule) ==
  IF rule = "directory" THEN subject_prefix \o <<Separator>> ELSE subject_prefix

ScanAttribute(store, subject_prefix, attribute, rule) ==
  {c.subject : c \in {d \in store :
      /\ d.attribute = attribute
      /\ IsPrefix(ScanPrefix(subject_prefix, rule), d.subject.urn)}}

-----------------------------------------------------------------------------
(* GrrMessageCollection: a sequential collection at an urn. *)

KeyLess(a, b) == a[1] < b[1] \/ (a[1] = b[1] /\ a[2] < b[2])

SequentialEntries(store, collection_urn) ==
  {c \in store : c.subject.urn = collection_urn /\ c.attribute = ATTRIBUTE}

\* SequentialCollection.StaticAdd: the cell written for (timestamp, suffix)
SequentialCell(collection_urn, rdf_value, timestamp, suffix) ==
  Cell(EntryRow(collection_urn, <<timestamp, suffix>>), ATTRIBUTE, rdf_value,
       timestamp)

RECURSIVE SortedKeys(_)
SortedKeys(S) ==
  IF S = {} THEN <<>>
  ELSE LET m == CHOOSE k \in S : \A j \in S : j = k \/ KeyLess(k, j)
       IN <<m>> \o SortedKeys(S \ {m})

Take(s, n) == IF n = -1 \/ n >= Len(s) THEN s ELSE SubSeq(s, 1, n)

\* SequentialCollection.Scan: (timestamp, value) in key order
SequentialScan(store, collection_urn, after_timestamp, include_suffix, max_records) ==
  LET cells == SequentialEntries(store, collection_urn)
      keys == {c.subject.key : c \in cells}
      wanted == {k \in keys : after_timestamp = NoneKey \/ KeyLess(after_timestamp, k)}
      order == Take(SortedKeys(wanted), max_records)
      valueAt(k) == (CHOOSE c \in cells : c.subject.key = k).value
  IN [i \in 1..Len(order) |->
        <<IF include_suffix THEN order[i] ELSE <<order[i][1]>>, valueAt(order[i])>>]

\* len(sub_collection)
SequentialLen(store, collection_urn) ==
  Cardinality(SequentialEntries(store, collection_urn))

-----------------------------------------------------------------------------
(* MultiTypeCollection.StaticAdd, piece by piece. *)

\* the check of line 63 left out
RejectsNoneNever(rdf_value) == FALSE

\* line 63: if rdf_value is None: raise ValueError
RejectsNone(rdf_value) == rdf_value = None

\* the isinstance test of line 66 left out: every value is wrapped
WrapAlways(rdf_value) ==
  [cls |-> "GrrMessage", args_rdf_name |-> rdf_value.cls, data |-> rdf_value.data]

\* lines 66-67
Wrap(rdf_value) ==
  IF rdf_value.cls # "GrrMessage" THEN GrrMessage(rdf_value) ELSE rdf_value

\* the routing type taken from the envelope's class, not its payload's
ValueTypeOfEnvelope(rdf_value) == rdf_value.cls

\* line 69
ValueType(rdf_value) ==
  IF rdf_value.args_rdf_name # "" THEN rdf_value.args_rdf_name ELSE "GrrMessage"

\* the sub-collection's urn without the type: every type in one sequence
SubpathShared(collection_urn, value_type) == Add(collection_urn, "Results")

\* line 75
Subpath(collection_urn, value_type) == Add(collection_urn, value_type)

\* suffix=timestamp passed on instead of suffix=suffix
EntryCellSuffixLost(collection_urn, rdf_value, timestamp, suffix) ==
  SequentialCell(Subpath(collection_urn, ValueType(Wrap(rdf_value))),
                 Wrap(rdf_value), timestamp, timestamp)

\* lines 76-83: the cell the sequential collection writes
EntryCell(collection_urn, rdf_value, timestamp, suffix) ==
  SequentialCell(Subpath(collection_urn, ValueType(Wrap(rdf_value))),
                 Wrap(rdf_value), timestamp, suffix)

\* the marker set on the sub-collection's row, not on the collection's
MarkerCellOnSubpath(collection_urn, value_type) ==
  Cell(Row(Subpath(collection_urn, value_type)), MarkerAttribute(value_type),
       MarkerValue, 0)

\* the marker stamped with the number of the Add, not with timestamp=0
MarkerCellStamped(collection_urn, value_type) ==
  Cell(Row(collection_urn), MarkerAttribute(value_type), MarkerValue, nAdds)

\* lines 86-90 and 92-97: the marker cell
MarkerCell(collection_urn, value_type) ==
  Cell(Row(collection_urn), MarkerAttribute(value_type), MarkerValue, 0)

\* what StaticAdd returns: the function has no return statement
StaticAddReturn(timestamp, suffix) == NoneKey

-----------------------------------------------------------------------------
(* The reads of MultiTypeCollection, as functions of the store. *)

\* lines 99-104, for one result `row` of ResolveRow
ListStoredTypes(row) ==
  LET kept == SelectSeq(row, LAMBDA c : startswith(c.attribute, VALUE_TYPE_PREFIX))
  IN [i \in 1..Len(kept) |-> kept[i].attribute[2]]

\* the three arguments of lines 138-140 not passed on
ScanByTypeDefaults(store, type_name, after_timestamp, include_suffix, max_records) ==
  SequentialScan(store, Add(urn, type_name), NoneKey, FALSE, -1)

\* lines 106-141
ScanByType(store, type_name, after_timestamp, include_suffix, max_records) ==
  SequentialScan(store, Add(urn, type_name), after_timestamp, include_suffix,
                 max_records)

LengthByType(store, type_name) == SequentialLen(store, Add(urn, type_name))

\* the list of sub-collections walked from its end
RECURSIVE IterTypesLastFirst(_, _)
IterTypesLastFirst(store, types) ==
  IF types = <<>> THEN <<>>
  ELSE IterTypesLastFirst(store, Tail(types))
         \o SequentialScan(store, Add(urn, Head(types)), NoneKey, FALSE, -1)

\* lines 188-198, for one result `row` of ResolveRow
RECURSIVE IterTypes(_, _)
IterTypes(store, types) ==
  IF types = <<>> THEN <<>>
  ELSE SequentialScan(store, Add(urn, Head(types)), NoneKey, FALSE, -1)
         \o IterTypes(store, Tail(types))

\* the sub-collections found by listing the store, not by the type markers
IterStoredChildren(store, row) ==
  IterTypes(store,
            SelectSeq(<<"A", "B", "GrrMessage">>,
                      LAMBDA t : SequentialLen(store, Add(urn, t)) > 0))

__iter__(store, row) == IterTypes(store, ListStoredTypes(row))

\* `return l` inside the loop: only the first type is counted
LenTypesFirstOnly(store, types) ==
  IF types = <<>> THEN 0 ELSE SequentialLen(store, Add(urn, Head(types)))

\* lines 200-212
RECURSIVE LenTypes(_, _)
LenTypes(store, types) ==
  IF types = <<>> THEN 0
  ELSE SequentialLen(store, Add(urn, Head(types))) + LenTypes(store, Tail(types))

__len__(store, row) == LenTypes(store, ListStoredTypes(row))

-----------------------------------------------------------------------------
(* State. *)

Idle == [state |-> "idle", value_type |-> ""]
Marking(value_type) == [state |-> "marker", value_type |-> value_type]

Outcome(op, w, rdf_value, key, pooled, status, ret) ==
  [op |-> op, w |-> w, rdf_value |-> rdf_value, key |-> key, pooled |-> pooled,
   status |-> status, ret |-> ret]

Init ==
  /\ db = {Cell(Row(urn), AFF4_TYPE, AFF4TypeValue, 0)}
  /\ mutation_pool = {}
  /\ pc = [w \in Writers |-> Idle]
  /\ deletion_pool = {}
  /\ nAdds = 0
  /\ last = Outcome("Create", "", NoValue, NoneKey, FALSE, "returned", NoneKey)
  /\ appended = {}
  /\ staged = {}
  /\ marker_failed = {}
  /\ completed = {}

\* the step just taken is OnDelete: its scan saw the store as it is now
Deleted == last.op = "OnDelete"

-----------------------------------------------------------------------------
(* Actions.  timestamp and suffix are the values the sequential collection  *)
(* uses: the caller's, or the current time and a random number.             *)

\* StaticAdd with rdf_value None: lines 63-64
AddRaise(w) ==
  /\ pc[w].state = "idle"
  /\ \E rdf_value \in RdfValues, pooled \in BOOLEAN :
       /\ RejectsNone(rdf_value)
       /\ last' = Outcome("StaticAdd", w, rdf_value, NoneKey, pooled, "ValueError",
                          NoneKey)
  /\ UNCHANGED <<db, mutation_pool, pc, deletion_pool, nAdds, appended, staged,
                 marker_failed, completed>>

\* mutation_pool not passed on to the sequential collection (line 82 left
\* out): the entry is written to the store, the marker is staged
AddPooledEntryDirect(w) ==
  /\ pc[w].state = "idle"
  /\ nAdds < MaxAdds
  /\ \E rdf_value \in RdfValues, timestamp \in Timestamps, suffix \in Suffixes :
       /\ ~RejectsNone(rdf_value)
       /\ db' = Set(db, EntryCell(urn, rdf_value, timestamp, suffix))
       /\ mutation_pool' =
            Set(mutation_pool, MarkerCell(urn, ValueType(Wrap(rdf_value))))
       /\ appended' =
            appended \cup {<<ValueType(Wrap(rdf_value)), <<timestamp, suffix>>>>}
       /\ last' = Outcome("StaticAdd", w, rdf_value, <<timestamp, suffix>>, TRUE,
                          "returned", StaticAddReturn(timestamp, suffix))
  /\ nAdds' = nAdds + 1
  /\ UNCHANGED <<pc, deletion_pool, staged, marker_failed, completed>>

\* the test of line 85 inverted: with a pool the marker goes to the store
\* (lines 92-97), the entry is staged
AddPooledMarkerDirect(w) ==
  /\ pc[w].state = "idle"
  /\ nAdds < MaxAdds
  /\ \E rdf_value \in RdfValues, timestamp \in Timestamps, suffix \in Suffixes :
       /\ ~RejectsNone(rdf_value)
       /\ mutation_pool' =
            Set(mutation_pool, EntryCell(urn, rdf_value, timestamp, suffix))
       /\ db' = Set(db, MarkerCell(urn, ValueType(Wrap(rdf_value))))
       /\ staged' = staged \cup {<<ValueType(Wrap(rdf_value)), <<timestamp, suffix>>>>}
       /\ last' = Outcome("StaticAdd", w, rdf_value, <<timestamp, suffix>>, TRUE,
                          "returned", StaticAddReturn(timestamp, suffix))
  /\ nAdds' = nAdds + 1
  /\ UNCHANGED <<pc, deletion_pool, appended, marker_failed, completed>>

\* StaticAdd with a mutation pool: lines 63-90; both writes are staged
AddPooled(w) ==
  /\ pc[w].state = "idle"
  /\ nAdds < MaxAdds
  /\ \E rdf_value \in RdfValues, timestamp \in Timestamps, suffix \in Suffixes :
       /\ ~RejectsNone(rdf_value)
       /\ mutation_pool' =
            Set(Set(mutation_pool, EntryCell(urn, rdf_value, timestamp, suffix)),
                MarkerCell(urn, ValueType(Wrap(rdf_value))))
       /\ staged' = staged \cup {<<ValueType(Wrap(rdf_value)), <<timestamp, suffix>>>>}
       /\ last' = Outcome("StaticAdd", w, rdf_value, <<timestamp, suffix>>, TRUE,
                          "returned", StaticAddReturn(timestamp, suffix))
  /\ nAdds' = nAdds + 1
  /\ UNCHANGED <<db, pc, deletion_pool, appended, marker_failed, completed>>

\* StaticAdd without a pool, up to the entry's write: lines 63-83
AddAppend(w) ==
  /\ pc[w].state = "idle"
  /\ nAdds < MaxAdds
  /\ \E rdf_value \in RdfValues, timestamp \in Timestamps, suffix \in Suffixes :
       /\ ~RejectsNone(rdf_value)
       /\ db' = Set(db, EntryCell(urn, rdf_value, timestamp, suffix))
       /\ pc' = [pc EXCEPT ![w] = Marking(ValueType(Wrap(rdf_value)))]
       /\ appended' =
            appended \cup {<<ValueType(Wrap(rdf_value)), <<timestamp, suffix>>>>}
       /\ last' = Outcome("StaticAdd", w, rdf_value, <<timestamp, suffix>>, FALSE,
                          "appended", NoneKey)
  /\ nAdds' = nAdds + 1
  /\ UNCHANGED <<mutation_pool, deletion_pool, staged, marker_failed, completed>>

\* the marker written although lines 76-83 raised (the marker's write moved
\* before the entry's)
AddAppendFailMarked(w) ==
  /\ pc[w].state = "idle"
  /\ \E rdf_value \in RdfValues :
       /\ ~RejectsNone(rdf_value)
       /\ db' = Set(db, MarkerCell(urn, ValueType(Wrap(rdf_value))))
  /\ last' = Outcome("StaticAdd", w, NoValue, NoneKey, FALSE, "StoreError", NoneKey)
  /\ UNCHANGED <<mutation_pool, pc, deletion_pool, nAdds, appended, staged,
                 marker_failed, completed>>

\* lines 76-83 raise: the store's error propagates, the marker is not written
AddAppendFail(w) ==
  /\ pc[w].state = "idle"
  /\ last' = Outcome("StaticAdd", w, NoValue, NoneKey, FALSE, "StoreError", NoneKey)
  /\ UNCHANGED <<db, mutation_pool, pc, deletion_pool, nAdds, appended, staged,
                 marker_failed, completed>>

\* the call of w that `last` is the entry write of, when no step came between
Uninterrupted(w) ==
  last.op = "StaticAdd" /\ last.w = w /\ last.status = "appended"

\* StaticAdd without a pool, the marker's write and the return: lines 92-97
AddMarker(w) ==
  /\ pc[w].state = "marker"
  /\ db' = Set(db, MarkerCell(urn, pc[w].value_type))
  /\ pc' = [pc EXCEPT ![w] = Idle]
  /\ last' = IF Uninterrupted(w)
               THEN Outcome("StaticAdd", w, last.rdf_value, last.key, FALSE,
                            "returned", StaticAddReturn(last.key[1], last.key[2]))
               ELSE Outcome("StaticAdd", w, NoValue, NoneKey, FALSE, "returned",
                            StaticAddReturn(0, 0))
  /\ completed' = completed \cup {pc[w].value_type}
  /\ UNCHANGED <<mutation_pool, deletion_pool, nAdds, appended, staged,
                 marker_failed>>

\* lines 92-97 raise: the entry is written, the marker is not
AddMarkerFail(w) ==
  /\ pc[w].state = "marker"
  /\ pc' = [pc EXCEPT ![w] = Idle]
  /\ marker_failed' = marker_failed \cup {pc[w].value_type}
  /\ last' = Outcome("StaticAdd", w, NoValue, NoneKey, FALSE, "StoreError", NoneKey)
  /\ UNCHANGED <<db, mutation_pool, deletion_pool, nAdds, appended, staged,
                 completed>>

\* the caller flushes its mutation pool
Flush ==
  /\ mutation_pool # {}
  /\ db' = FlushInto(db, mutation_pool)
  /\ mutation_pool' = {}
  /\ appended' = appended \cup staged
  /\ completed' = completed \cup {s[1] : s \in staged}
  /\ staged' = {}
  /\ last' = IF last.op = "StaticAdd" /\ last.pooled /\ last.status = "returned"
               THEN Outcome("Flush", last.w, last.rdf_value, last.key, TRUE,
                            "returned", NoneKey)
               ELSE Outcome("Flush", "", NoValue, NoneKey, TRUE, "returned", NoneKey)
  /\ UNCHANGED <<pc, deletion_pool, nAdds, marker_failed>>

\* the sub-collections found through the type markers instead of the scan
OnDeleteMarksListed(store, collection_urn, rule) ==
  {c.subject : c \in {d \in store :
      /\ d.attribute = ATTRIBUTE
      /\ \E m \in RowCells(store, Row(collection_urn)) :
           /\ startswith(m.attribute, VALUE_TYPE_PREFIX)
           /\ d.subject.urn = Add(collection_urn, m.attribute[2])}}

\* lines 217-221: what OnDelete marks for deletion; self.urn is passed as it
\* is, no separator added
OnDeleteMarks(store, collection_urn, rule) ==
  ScanAttribute(store, collection_urn, ATTRIBUTE, rule)

\* lines 214-221
OnDelete ==
  /\ \E rule \in PrefixRules :
       deletion_pool' = deletion_pool \cup OnDeleteMarks(db, urn, rule)
  /\ last' = Outcome("OnDelete", "", NoValue, NoneKey, FALSE, "returned", NoneKey)
  /\ UNCHANGED <<db, mutation_pool, pc, nAdds, appended, staged, marker_failed,
                 completed>>

Next ==
  \/ \E w \in Writers : AddRaise(w)
  \/ \E w \in Writers : AddPooled(w)
  \/ \E w \in Writers : AddAppend(w)
  \/ \E w \in Writers : AddAppendFail(w)
  \/ \E w \in Writers : AddMarker(w)
  \/ \E w \in Writers : AddMarkerFail(w)
  \/ Flush
  \/ OnDelete

Spec == Init /\ [][Next]_vars

\* the Adds alone.  OnDelete writes nothing to the store or to a mutation
\* pool, so the stores and pools reached are those of Spec; what a read of
\* the whole collection returns, for every order the store may return the
\* row in, is examined here.
NextAdds ==
  \/ \E w \in Writers : AddRaise(w)
  \/ \E w \in Writers : AddPooled(w)
  \/ \E w \in Writers : AddAppend(w)
  \/ \E w \in Writers : AddAppendFail(w)
  \/ \E w \in Writers : AddMarker(w)
  \/ \E w \in Writers : AddMarkerFail(w)
  \/ Flush

SpecAdds == Init /\ [][NextAdds]_vars

-----------------------------------------------------------------------------
(* What the claims speak of. *)

\* the canonical envelope of a payload, and the type name derived from it
EnvelopeOf(p) ==
  IF p.cls = "GrrMessage" THEN p
  ELSE [cls |-> "GrrMessage", args_rdf_name |-> p.cls, data |-> p.data]

DerivedType(p) ==
  IF p.cls # "GrrMessage" THEN p.cls
  ELSE IF p.args_rdf_name = "" THEN "GrrMessage" ELSE p.args_rdf_name

Range(s) == {s[i] : i \in 1..Len(s)}

\* ScanByType(T) with the full keys, no start and no limit
FullScan(T) == ScanByType(db, T, NoneKey, TRUE, -1)

KeyAtMost(a, b) == a[1] < b[1] \/ (a[1] = b[1] /\ a[2] <= b[2])
NonDecreasing(scan) ==
  \A i \in 1..(Len(scan) - 1) : KeyAtMost(scan[i][1], scan[i + 1][1])

\* ListStoredTypes(), as a set: whatever order the store returns the row in
StoredTypeSet ==
  UNION {Range(ListStoredTypes(row)) : row \in ResolveRow(db, Row(urn))}

TypesWithEntries == {T \in TypeNames : LengthByType(db, T) > 0}

AllIdle == \A w \in Writers : pc[w].state = "idle"

RECURSIVE SumLengths(_)
SumLengths(S) ==
  IF S = {} THEN 0
  ELSE LET T == CHOOSE x \in S : TRUE
       IN LengthByType(db, T) + SumLengths(S \ {T})

-----------------------------------------------------------------------------
(* C1: routing correctness.  Right after an Add of a payload P whose write  *)
(* reached the store (a non-pooled Add once its entry is written and when   *)
(* it has returned, a pooled Add once the pool is flushed), ScanByType of   *)
(* P's derived type yields P's envelope at the Add's key, and the scan is   *)
(* in ascending key order.                                                  *)
C1_RoutingCorrectness ==
  ( /\ last.rdf_value \in RdfValues \ {None}
    /\ \/ last.op = "StaticAdd" /\ ~last.pooled
       \/ last.op = "Flush" )
  => /\ <<last.key, EnvelopeOf(last.rdf_value)>>
          \in Range(FullScan(DerivedType(last.rdf_value)))
     /\ NonDecreasing(FullScan(DerivedType(last.rdf_value)))

C1_Witness ==
  /\ last.op = "Flush"
  /\ last.rdf_value = Payload("A", "y")
  /\ Len(FullScan("A")) = 2
  /\ <<last.key, GrrMessage(Payload("A", "y"))>> \in Range(FullScan("A"))

(* C2: type isolation.  Every entry ScanByType(T) yields has derived type   *)
(* T, and LengthByType(T) counts exactly the stored entries of derived type *)
(* T: no entry of another type is scanned or counted under T.               *)
C2_TypeIsolation ==
  \A T \in TypeNames :
    /\ \A e \in Range(FullScan(T)) : DerivedType(e[2]) = T
    /\ LengthByType(db, T) =
         Cardinality({c \in db : c.attribute = ATTRIBUTE /\ DerivedType(c.value) = T})

C2_Witness ==
  /\ LengthByType(db, "A") = 1
  /\ LengthByType(db, "B") = 1
  /\ Len(FullScan("GrrMessage")) = 0

(* C3: discovery completeness.  Every type of which an Add went through  *)
(* (a non-pooled Add that returned, a pooled Add whose pool was flushed) is *)
(* in ListStoredTypes(), from then on and whatever the order of the Adds.   *)
C3_DiscoveryCompleteness == completed \subseteq StoredTypeSet

C3_Witness ==
  /\ completed = {"A", "B"}
  /\ StoredTypeSet = {"A", "B"}
  /\ last.op = "StaticAdd"
  /\ last.status = "returned"
  /\ ~last.pooled

(* C4: Add returns the ordering key (timestamp, suffix) its append          *)
(* produced.                                                                *)
C4_AddReturnsKey ==
  (last.op = "StaticAdd" /\ last.status = "returned" /\ last.key # NoneKey)
  => last.ret = last.key

(* C5: null rejection.  An Add of None raises ValueError and leaves the     *)
(* store and the mutation pool as they were.                                *)
C5_NullRejection ==
  [][ (last'.op = "StaticAdd" /\ last'.rdf_value = None)
      => /\ last'.status = "ValueError"
         /\ db' = db
         /\ mutation_pool' = mutation_pool ]_vars

C5_Witness ==
  /\ last.op = "StaticAdd"
  /\ last.rdf_value = None
  /\ last.status = "ValueError"
  /\ TypesWithEntries # {}
  /\ mutation_pool # {}

(* C6: ordering within a type.  ScanByType(T) is in non-decreasing key      *)
(* order whatever the order of the Adds, and it yields as many entries as   *)
(* there were distinct keys written to T: equal timestamps with distinct    *)
(* suffixes are both kept.                                                  *)
C6_OrderingWithinType ==
  \A T \in TypeNames :
    /\ NonDecreasing(FullScan(T))
    /\ Len(FullScan(T)) = Cardinality({a \in appended : a[1] = T})

\* (1,7) was added first, (1,5) after it
C6_Witness ==
  /\ Len(FullScan("A")) = 2
  /\ FullScan("A")[1][1] = <<1, 5>>
  /\ FullScan("A")[2][1] = <<1, 7>>
  /\ last.op = "StaticAdd"
  /\ last.key = <<1, 5>>

(* C7: count consistency.  With no write in progress, len() equals the sum  *)
(* of LengthByType over ListStoredTypes() and the number of entries the     *)
(* iteration yields, whatever order the types are listed in.                *)
C7_Counts ==
  AllIdle =>
    \A row \in ResolveRow(db, Row(urn)) :
      /\ __len__(db, row) = SumLengths(Range(ListStoredTypes(row)))
      /\ __len__(db, row) = Len(__iter__(db, row))

C7_CountConsistency == [](C7_Counts)

C7_Witness ==
  /\ AllIdle
  /\ StoredTypeSet = {"A", "B"}
  /\ \A row \in ResolveRow(db, Row(urn)) : __len__(db, row) = 2

(* C8: cascading deletion.  After OnDelete, the row of every entry ever     *)
(* written to the store under the collection is in the deletion pool, also  *)
(* the entries of a type whose marker was never written.                    *)
C8_CascadingDeletion ==
  Deleted =>
    \A a \in appended : EntryRow(Add(urn, a[1]), a[2]) \in deletion_pool

C8_Witness ==
  /\ Deleted
  /\ \E a \in appended : a[1] \notin StoredTypeSet
  /\ Cardinality(deletion_pool) = 2

(* C9, as stated: in every reachable state the types that have a marker     *)
(* include every type that has an entry.                                    *)
C9_MarkerSuperset == TypesWithEntries \subseteq StoredTypeSet

(* C9, amended: a type that has an entry has its marker, unless a           *)
(* non-pooled Add of that type has written its entry and not its marker:    *)
(* the marker's write is still to come, or it failed.                       *)
C9_MarkedOrInWindow ==
  \A T \in TypesWithEntries :
    \/ T \in StoredTypeSet
    \/ \E w \in Writers : pc[w] = Marking(T)
    \/ T \in marker_failed

C9_MarkerSupersetOutsideWindow == [](C9_MarkedOrInWindow)

C9_Witness ==
  /\ AllIdle
  /\ marker_failed = {}
  /\ TypesWithEntries = {"A", "B"}
  /\ StoredTypeSet = {"A", "B"}
  /\ mutation_pool = {}

(* C10: no marker without an entry.  A type that has a marker on the        *)
(* collection's row has at least one entry in its sequence; so no marker is *)
(* written before its entry, and none by an Add whose append failed.        *)
C10_NoMarkerWithoutEntry ==
  [](\A T \in StoredTypeSet : LengthByType(db, T) > 0)

C10_Witness ==
  /\ StoredTypeSet = {"A"}
  /\ TypesWithEntries = {"A"}
  /\ last.op = "StaticAdd"
  /\ last.status = "StoreError"
  /\ marker_failed = {}

-----------------------------------------------------------------------------
(* C11: a pooled Add is atomic for readers.  The Add stages the entry and   *)
(* the marker in the pool and leaves the store as it was; every entry in    *)
(* the pool has its type's marker in the same pool; the flush writes every  *)
(* staged cell at once, and after it the entry is scanned and its type is   *)
(* listed.                                                                  *)
PoolHolds(subject, attribute) ==
  \E c \in mutation_pool : c.subject = subject /\ c.attribute = attribute

C11_PoolPaired ==
  \A c \in mutation_pool :
    c.attribute = ATTRIBUTE
      => PoolHolds(Row(urn), <<VALUE_TYPE_PREFIX, DerivedType(c.value)>>)

C11_VisibleAfterFlush ==
  (last.op = "Flush" /\ last.rdf_value # NoValue)
  => /\ DerivedType(last.rdf_value) \in StoredTypeSet
     /\ <<last.key, EnvelopeOf(last.rdf_value)>>
          \in Range(FullScan(DerivedType(last.rdf_value)))

C11_PooledAddStep ==
  (last'.op = "StaticAdd" /\ last'.pooled /\ last'.status = "returned")
  => /\ db' = db
     /\ \E c \in mutation_pool' :
          /\ c.subject = EntryRow(Add(urn, DerivedType(last'.rdf_value)), last'.key)
          /\ c.attribute = ATTRIBUTE
          /\ c.value = EnvelopeOf(last'.rdf_value)
     /\ \E m \in mutation_pool' :
          /\ m.subject = Row(urn)
          /\ m.attribute = <<VALUE_TYPE_PREFIX, DerivedType(last'.rdf_value)>>

C11_FlushStep ==
  (mutation_pool # {} /\ mutation_pool' = {}) => mutation_pool \subseteq db'

C11_PooledAddAtomic ==
  /\ [](C11_PoolPaired /\ C11_VisibleAfterFlush)
  /\ [][C11_PooledAddStep /\ C11_FlushStep]_vars

\* an entry of type A is staged: it is not scanned and A is not listed
C11_Witness ==
  /\ last.op = "StaticAdd"
  /\ last.pooled
  /\ last.status = "returned"
  /\ DerivedType(last.rdf_value) = "A"
  /\ PoolHolds(EntryRow(Add(urn, "A"), last.key), ATTRIBUTE)
  /\ LengthByType(db, "A") = 0
  /\ "A" \notin StoredTypeSet

-----------------------------------------------------------------------------
(* C12: the window of a non-pooled Add.  A type that has an entry and no    *)
(* marker is scanned and counted by type, and is missing from the iteration *)
(* and from len(); and a type is listed only when an Add of that type has   *)
(* written its marker (to the store, or by a flush).                        *)
InWindow(T) == LengthByType(db, T) > 0 /\ T \notin StoredTypeSet

TotalEntries == Cardinality({c \in db : c.attribute = ATTRIBUTE})

C12_WindowState ==
  \A T \in TypeNames :
    InWindow(T) =>
      /\ Len(FullScan(T)) = LengthByType(db, T)
      /\ \A row \in ResolveRow(db, Row(urn)) :
           /\ \A e \in Range(__iter__(db, row)) : DerivedType(e[2]) # T
           /\ __len__(db, row) + LengthByType(db, T) <= TotalEntries

\* a type is listed only once an Add of that type went through, marker
\* included: a window left by a failed marker write stays open until then
C12_Repair == StoredTypeSet \subseteq completed

C12_NonBatchedWindow == [](C12_WindowState /\ C12_Repair)

\* the marker write of an Add of A failed: A's entry is scanned, A is not
\* listed, and len() counts B's entry alone
C12_Witness ==
  /\ AllIdle
  /\ marker_failed = {"A"}
  /\ Len(FullScan("A")) = 1
  /\ LengthByType(db, "A") = 1
  /\ StoredTypeSet = {"B"}
  /\ \A row \in ResolveRow(db, Row(urn)) :
       __len__(db, row) = 1 /\ Len(__iter__(db, row)) = 1

-----------------------------------------------------------------------------
(* The iteration is the listed types' sequences one after the other,        *)
(* in the order ListStoredTypes returned the types: the block of the i-th   *)
(* type starts where the blocks of the types before it end and is that      *)
(* type's whole scan in ascending key order, no type has two blocks, and    *)
(* the blocks make up the whole iteration.                                  *)
RECURSIVE BlockStart(_, _)
BlockStart(types, i) ==
  IF i = 1 THEN 0
  ELSE BlockStart(types, i - 1) + LengthByType(db, types[i - 1])

C13_Blocks(row) ==
  LET types == ListStoredTypes(row)
      it == __iter__(db, row)
  IN /\ \A i, j \in 1..Len(types) : types[i] = types[j] => i = j
     /\ Len(it) = BlockStart(types, Len(types) + 1)
     /\ \A i \in 1..Len(types) :
          LET scan == FullScan(types[i])
          IN /\ Len(scan) = LengthByType(db, types[i])
             /\ NonDecreasing(scan)
             /\ \A j, k \in 1..Len(scan) : scan[j][1] = scan[k][1] => j = k
             /\ \A j \in 1..Len(scan) :
                  /\ it[BlockStart(types, i) + j] = <<<<scan[j][1][1]>>, scan[j][2]>>
                  /\ DerivedType(scan[j][2]) = types[i]

-----------------------------------------------------------------------------
(* Two StaticAdd calls without a pool, of different types, on a collection  *)
(* that already holds an entry of type A: each writer's pc holds its call's *)
(* arguments, and the steps of the two calls interleave freely.             *)

\* the collection before the two calls
StoreBefore ==
  Set(Set({Cell(Row(urn), AFF4_TYPE, AFF4TypeValue, 0)},
          EntryCell(urn, Payload("A", "y"), 1, 5)),
      MarkerCell(urn, "A"))

Call(rdf_value, timestamp, suffix, state, overlapped) ==
  [state |-> state, value_type |-> ValueType(Wrap(rdf_value)),
   rdf_value |-> rdf_value, key |-> <<timestamp, suffix>>,
   overlapped |-> overlapped]

InitConcurrent ==
  /\ db = StoreBefore
  /\ \E v1, v2 \in RdfValues \ {None}, k1, k2 \in Keys :
       /\ ValueType(Wrap(v1)) # ValueType(Wrap(v2))
       /\ pc = [w \in Writers |->
                  IF w = "w1" THEN Call(v1, k1[1], k1[2], "called", FALSE)
                  ELSE Call(v2, k2[1], k2[2], "called", FALSE)]
  /\ mutation_pool = {}
  /\ deletion_pool = {}
  /\ nAdds = 0
  /\ last = Outcome("", "", NoValue, NoneKey, FALSE, "", NoneKey)
  /\ appended = {}
  /\ staged = {}
  /\ marker_failed = {}
  /\ completed = {}

\* lines 63-83 of w's call: the entry is written
ConcurrentAppend(w) ==
  /\ pc[w].state = "called"
  /\ ~RejectsNone(pc[w].rdf_value)
  /\ db' = Set(db, EntryCell(urn, pc[w].rdf_value, pc[w].key[1], pc[w].key[2]))
  /\ pc' = [pc EXCEPT ![w] =
              Call(pc[w].rdf_value, pc[w].key[1], pc[w].key[2], "marker",
                   \E o \in Writers \ {w} : pc[o].state = "marker")]
  /\ UNCHANGED <<mutation_pool, deletion_pool, nAdds, last, appended, staged,
                 marker_failed, completed>>

\* lines 92-97 of w's call: the marker is written and the call returns
ConcurrentMarker(w) ==
  /\ pc[w].state = "marker"
  /\ db' = Set(db, MarkerCell(urn, pc[w].value_type))
  /\ pc' = [pc EXCEPT ![w] =
              Call(pc[w].rdf_value, pc[w].key[1], pc[w].key[2], "returned",
                   pc[w].overlapped)]
  /\ UNCHANGED <<mutation_pool, deletion_pool, nAdds, last, appended, staged,
                 marker_failed, completed>>

NextConcurrent ==
  \/ \E w \in Writers : ConcurrentAppend(w)
  \/ \E w \in Writers : ConcurrentMarker(w)

SpecConcurrent == InitConcurrent /\ [][NextConcurrent]_vars

\* the store after w's whole call has run on `store`
AfterCall(store, w) ==
  Set(Set(store, EntryCell(urn, pc[w].rdf_value, pc[w].key[1], pc[w].key[2])),
      MarkerCell(urn, pc[w].value_type))

Sequences(store) == [T \in TypeNames |-> ScanByType(store, T, NoneKey, TRUE, -1)]
Markers(store) ==
  UNION {Range(ListStoredTypes(row)) : row \in ResolveRow(store, Row(urn))}

(* C14: two non-pooled Adds of different types do not interfere.  Their     *)
(* entries go to different rows and their markers to different attributes,  *)
(* and once both calls have returned, whatever the interleaving, the        *)
(* per-type sequences and the marker set are those of the two calls run     *)
(* one after the other, in either order.                                    *)
C14_ConcurrentAddsCommute ==
  LET e1 == EntryCell(urn, pc["w1"].rdf_value, pc["w1"].key[1], pc["w1"].key[2])
      e2 == EntryCell(urn, pc["w2"].rdf_value, pc["w2"].key[1], pc["w2"].key[2])
      w1w2 == AfterCall(AfterCall(StoreBefore, "w1"), "w2")
      w2w1 == AfterCall(AfterCall(StoreBefore, "w2"), "w1")
  IN /\ e1.subject # e2.subject
     /\ MarkerCell(urn, pc["w1"].value_type).attribute
          # MarkerCell(urn, pc["w2"].value_type).attribute
     /\ (\A w \in Writers : pc[w].state = "returned") =>
          /\ Sequences(db) = Sequences(w1w2)
          /\ Sequences(db) = Sequences(w2w1)
          /\ Markers(db) = Markers(w1w2)
          /\ Markers(db) = Markers(w2w1)
          /\ Markers(db) = {"A", pc["w1"].value_type, pc["w2"].value_type}

\* both calls have returned, w2 wrote its entry between w1's two writes, and
\* the two entries have the same key
C14_Witness ==
  /\ \A w \in Writers : pc[w].state = "returned"
  /\ pc["w2"].overlapped
  /\ pc["w1"].key = pc["w2"].key
  /\ pc["w1"].value_type = "B"
  /\ Len(Sequences(db)["B"]) = 1
  /\ Len(Sequences(db)[pc["w2"].value_type]) >= 1

-----------------------------------------------------------------------------
(* C15: marker idempotence.  Every marker, written or staged, has the value *)
(* 1 and the timestamp 0, whatever the timestamp of the entry; every type   *)
(* is listed once, however many entries it has; no step removes or changes  *)
(* a marker; and a step that adds a marker adds it for a type that had      *)
(* none: writing the marker of a type that has one changes nothing.         *)
MarkerCells(store) ==
  {c \in RowCells(store, Row(urn)) : startswith(c.attribute, VALUE_TYPE_PREFIX)}

C15_FixedMarker ==
  \A c \in MarkerCells(db) \cup MarkerCells(mutation_pool) :
    c.value.data = "1" /\ c.value.cls = "int" /\ c.timestamp = 0

C15_ListedOnce ==
  \A row \in ResolveRow(db, Row(urn)) :
    LET types == ListStoredTypes(row)
    IN \A i, j \in 1..Len(types) : types[i] = types[j] => i = j

C15_MarkerStep ==
  /\ MarkerCells(db) \subseteq MarkerCells(db')
  /\ \A c \in MarkerCells(db') \ MarkerCells(db) :
       \A o \in MarkerCells(db) : o.attribute # c.attribute

C15_MarkerIdempotence ==
  [](C15_FixedMarker /\ C15_ListedOnce) /\ [][C15_MarkerStep]_vars

\* two Adds of type A at different timestamps have both written the marker:
\* A is listed once, with two entries
C15_Witness ==
  /\ AllIdle
  /\ nAdds = 2
  /\ last.op = "StaticAdd" /\ last.status = "returned" /\ ~last.pooled
  /\ marker_failed = {} /\ mutation_pool = {}
  /\ LengthByType(db, "A") = 2
  /\ {e[1][1] : e \in Range(FullScan("A"))} = {1, 2}
  /\ \A row \in ResolveRow(db, Row(urn)) : ListStoredTypes(row) = <<"A">>

-----------------------------------------------------------------------------
(* C17: envelope normalization.  Right after an Add of v at key k, the cell *)
(* it wrote (or staged) is the one an Add of v's envelope writes at k: the  *)
(* value is the envelope of v, wrapped once, in the sequence of the         *)
(* envelope's payload type, or of "GrrMessage" when the envelope has no     *)
(* payload; and the marker an Add that returned wrote is that type's.       *)
C17_Target == IF last.pooled THEN mutation_pool ELSE db

C17_Normalized ==
  (/\ last.op = "StaticAdd"
   /\ last.status \in {"appended", "returned"}
   /\ last.rdf_value # NoValue) =>
    LET v == last.rdf_value
        k == last.key
        routed == IF v.cls # "GrrMessage" THEN v.cls
                  ELSE IF v.args_rdf_name # "" THEN v.args_rdf_name
                  ELSE "GrrMessage"
        c == CHOOSE d \in C17_Target :
               d.subject = EntryRow(Add(urn, routed), k) /\ d.attribute = ATTRIBUTE
    IN /\ \E d \in C17_Target :
            d.subject = EntryRow(Add(urn, routed), k) /\ d.attribute = ATTRIBUTE
       /\ c = EntryCell(urn, EnvelopeOf(v), k[1], k[2])
       /\ c = EntryCell(urn, v, k[1], k[2])
       /\ c.value = EnvelopeOf(v)
       /\ c.value.cls = "GrrMessage" /\ c.value.args_rdf_name # "GrrMessage"
       /\ (v.cls # "GrrMessage" =>
             c.value.args_rdf_name = v.cls /\ c.value.data = v.data)
       /\ (last.status = "returned" =>
             /\ MarkerCell(urn, routed) \in C17_Target
             /\ MarkerCell(urn, ValueType(EnvelopeOf(v))) \in C17_Target)

C17_EnvelopeNormalization == [](C17_Normalized)

\* an envelope without a payload was added, then the envelope of an A: the
\* first is in the sequence of "GrrMessage", the second in A's, as it was given
C17_Witness ==
  /\ last.op = "StaticAdd" /\ last.status = "returned" /\ ~last.pooled
  /\ last.rdf_value = GrrMessage(Payload("A", "x"))
  /\ <<last.key, last.rdf_value>> \in Range(FullScan("A"))
  /\ LengthByType(db, "GrrMessage") = 1
  /\ FullScan("GrrMessage")[1][2] = GrrMessage(None)
  /\ StoredTypeSet = {"A", "GrrMessage"}

-----------------------------------------------------------------------------
(* The collection next to another collection whose name begins with this    *)
(* collection's name: Adds without a pool to either, each in its two        *)
(* writes, and OnDelete of this one, at any time and any number of times.   *)

OtherUrn == <<"C", "D">>

InitDelete ==
  /\ db = {Cell(Row(urn), AFF4_TYPE, AFF4TypeValue, 0),
           Cell(Row(OtherUrn), AFF4_TYPE, AFF4TypeValue, 0)}
  /\ mutation_pool = {}
  /\ pc = [w \in Writers |-> Idle]
  /\ deletion_pool = {}
  /\ nAdds = 0
  /\ last = Outcome("", "", NoValue, NoneKey, FALSE, "", NoneKey)
  /\ appended = {}
  /\ staged = {}
  /\ marker_failed = {}
  /\ completed = {}

\* w is between the two writes of a StaticAdd to the other collection
OtherMarking(value_type) == [state |-> "marker_other", value_type |-> value_type]

\* StaticAdd(OtherUrn, ...) without a pool, up to the entry's write: lines 63-83
OtherAppend(w) ==
  /\ pc[w].state = "idle"
  /\ nAdds < MaxAdds
  /\ \E rdf_value \in RdfValues, timestamp \in Timestamps, suffix \in Suffixes :
       /\ ~RejectsNone(rdf_value)
       /\ db' = Set(db, EntryCell(OtherUrn, rdf_value, timestamp, suffix))
       /\ pc' = [pc EXCEPT ![w] = OtherMarking(ValueType(Wrap(rdf_value)))]
       /\ last' = Outcome("StaticAdd", w, rdf_value, <<timestamp, suffix>>, FALSE,
                          "appended", NoneKey)
  /\ nAdds' = nAdds + 1
  /\ UNCHANGED <<mutation_pool, deletion_pool, appended, staged, marker_failed,
                 completed>>

\* StaticAdd(OtherUrn, ...), the marker's write and the return: lines 92-97
OtherMarker(w) ==
  /\ pc[w].state = "marker_other"
  /\ db' = Set(db, MarkerCell(OtherUrn, pc[w].value_type))
  /\ pc' = [pc EXCEPT ![w] = Idle]
  /\ last' = IF Uninterrupted(w)
               THEN Outcome("StaticAdd", w, last.rdf_value, last.key, FALSE,
                            "returned", StaticAddReturn(last.key[1], last.key[2]))
               ELSE Outcome("StaticAdd", w, NoValue, NoneKey, FALSE, "returned",
                            StaticAddReturn(0, 0))
  /\ UNCHANGED <<mutation_pool, deletion_pool, nAdds, appended, staged,
                 marker_failed, completed>>

\* StaticAdd(OtherUrn, ...), lines 92-97 raise: the other collection's entry
\* is written, its marker is not
OtherMarkerFail(w) ==
  /\ pc[w].state = "marker_other"
  /\ pc' = [pc EXCEPT ![w] = Idle]
  /\ last' = Outcome("StaticAdd", w, NoValue, NoneKey, FALSE, "StoreError", NoneKey)
  /\ UNCHANGED <<db, mutation_pool, deletion_pool, nAdds, appended, staged,
                 marker_failed, completed>>

NextDelete ==
  \/ \E w \in Writers : AddAppend(w)
  \/ \E w \in Writers : AddMarker(w)
  \/ \E w \in Writers : AddMarkerFail(w)
  \/ \E w \in Writers : OtherAppend(w)
  \/ \E w \in Writers : OtherMarker(w)
  \/ \E w \in Writers : OtherMarkerFail(w)
  \/ OnDelete

SpecDelete == InitDelete /\ [][NextDelete]_vars

(* What OnDelete registers when the other collection holds entries.  Under  *)
(* either rule of the store every registered address is the row of a        *)
(* sequence entry whose urn begins with this collection's urn, and every    *)
(* row of an entry added to this collection is among those an OnDelete      *)
(* registers.  Whether a row of the other collection is registered is       *)
(* decided by the store's rule alone: never with the prefix taken as a      *)
(* directory, and with the prefix taken as a string as soon as the other    *)
(* collection holds an entry.                                               *)
RegisteredUnderPrefix ==
  \A s \in deletion_pool :
    /\ IsPrefix(urn, s.urn)
    /\ \E c \in db : c.subject = s /\ c.attribute = ATTRIBUTE

\* the rows of the entries added to this collection, and the rows the other
\* collection's entries are in
OwnRows == {EntryRow(Add(urn, a[1]), a[2]) : a \in appended}

OtherRows ==
  {c.subject : c \in {d \in db : /\ d.attribute = ATTRIBUTE
                                 /\ IsPrefix(OtherUrn, d.subject.urn)}}

ByDirectoryOnlyOwnRows == OnDeleteMarks(db, urn, "directory") = OwnRows

ByStringAlsoOtherRows ==
  OnDeleteMarks(db, urn, "string") = OwnRows \cup OtherRows

\* this collection's OnDelete has registered a row of the other collection
OtherRowRegistered ==
  /\ Deleted
  /\ deletion_pool \cap OtherRows # {}

-----------------------------------------------------------------------------
(* The reads, called by one reader while another caller makes one Add       *)
(* without a pool.  A scan and an iteration are generators: nothing is read *)
(* before the first item is asked for, every item is read from the store    *)
(* when it is asked for, and the reader may drop the generator at any time. *)
(* len() reads the row, then the length of one sub-collection after the     *)
(* other.                                                                   *)

Readers == {"w1"}

\* the store after a StaticAdd without a pool of rdf_value at each of the keys
RECURSIVE AddAll(_, _, _)
AddAll(store, rdf_value, keys) ==
  IF keys = {} THEN store
  ELSE LET k == CHOOSE x \in keys : TRUE
       IN AddAll(Set(Set(store, EntryCell(urn, rdf_value, k[1], k[2])),
                     MarkerCell(urn, ValueType(Wrap(rdf_value)))),
                 rdf_value, keys \ {k})

\* a reader's position: the call's arguments; the types ListStoredTypes
\* returned, once the row is read (started); the number of items yielded, or
\* of sub-collections counted (pos); the type being iterated (index); the key
\* of the last item read (cursor); the lengths added up so far (acc)
NotReading ==
  [state |-> "idle", value_type |-> "", after_timestamp |-> NoneKey,
   include_suffix |-> FALSE, max_records |-> -1, started |-> FALSE,
   types |-> <<>>, pos |-> 0, index |-> 1, cursor |-> NoneKey, acc |-> 0]

\* what is left of w's scan: sub_collection.Scan(...) of lines 137-140, from
\* the last item read on
ScanRest(w, include_suffix) ==
  ScanByType(db, pc[w].value_type,
             IF pc[w].pos = 0 THEN pc[w].after_timestamp ELSE pc[w].cursor,
             include_suffix,
             IF pc[w].max_records = -1 THEN -1 ELSE pc[w].max_records - pc[w].pos)

\* what is left of the sub-collection w's iteration is in, with the keys:
\* one read of the store, from the last item read on
IterRest(w) ==
  SequentialScan(db, Add(urn, pc[w].types[pc[w].index]), pc[w].cursor, TRUE, -1)

\* A's entries at one key or at every key; B without an entry, with one, or
\* with one whose marker write failed
InitReads ==
  /\ \E keysA \in {{<<2, 5>>}, Keys}, keysB \in SUBSET {<<1, 7>>},
        window \in BOOLEAN :
       LET stored == AddAll({Cell(Row(urn), AFF4_TYPE, AFF4TypeValue, 0)},
                            Payload("A", "x"), keysA)
       IN /\ window => keysB # {}
          /\ db = IF window THEN Set(stored, EntryCell(urn, Payload("B", "x"), 1, 7))
                  ELSE AddAll(stored, Payload("B", "x"), keysB)
  /\ mutation_pool = {}
  /\ pc = [w \in Writers |-> IF w \in Readers THEN NotReading ELSE Idle]
  /\ deletion_pool = {}
  /\ nAdds = 0
  /\ last = Outcome("", "", NoValue, NoneKey, FALSE, "", NoneKey)
  /\ appended = {}
  /\ staged = {}
  /\ marker_failed = {}
  /\ completed = {}

ReadFrame ==
  UNCHANGED <<mutation_pool, deletion_pool, nAdds, appended, staged,
              marker_failed, completed>>

\* lines 99-104
ListStoredTypesCall(w) ==
  /\ pc[w].state = "idle"
  /\ \E row \in ResolveRow(db, Row(urn)) :
       last' = Outcome("ListStoredTypes", w, NoValue, NoneKey, FALSE, "returned",
                       ListStoredTypes(row))
  /\ UNCHANGED <<db, pc>>
  /\ ReadFrame

\* the sub-collection made through StaticAdd's path: its marker is set
ScanByTypeCallMarking(w) ==
  /\ pc[w].state = "idle"
  /\ \E type_name \in PayloadClasses, after_timestamp \in {NoneKey} \cup Keys,
        include_suffix \in BOOLEAN, max_records \in {-1} \cup (1..MaxRecords) :
       /\ pc' = [pc EXCEPT ![w] =
                   [NotReading EXCEPT !.state = "scan", !.value_type = type_name,
                                      !.after_timestamp = after_timestamp,
                                      !.include_suffix = include_suffix,
                                      !.max_records = max_records]]
       /\ db' = Set(db, MarkerCell(urn, type_name))
  /\ last' = Outcome("ScanByType", w, NoValue, NoneKey, FALSE, "called", NoneKey)
  /\ ReadFrame

\* ScanByType is called: a generator function, nothing of lines 132-141 runs
\* before the first item is asked for
ScanByTypeCall(w) ==
  /\ pc[w].state = "idle"
  /\ \E type_name \in PayloadClasses, after_timestamp \in {NoneKey} \cup Keys,
        include_suffix \in BOOLEAN, max_records \in {-1} \cup (1..MaxRecords) :
       pc' = [pc EXCEPT ![w] =
                [NotReading EXCEPT !.state = "scan", !.value_type = type_name,
                                   !.after_timestamp = after_timestamp,
                                   !.include_suffix = include_suffix,
                                   !.max_records = max_records]]
  /\ last' = Outcome("ScanByType", w, NoValue, NoneKey, FALSE, "called", NoneKey)
  /\ UNCHANGED db
  /\ ReadFrame

\* lines 137-141: the scan yields its next item, read from the store now
ScanNext(w) ==
  /\ pc[w].state = "scan"
  /\ ScanRest(w, TRUE) # <<>>
  /\ pc' = [pc EXCEPT ![w].pos = pc[w].pos + 1,
                      ![w].cursor = ScanRest(w, TRUE)[1][1]]
  /\ last' = Outcome("ScanByType", w, ScanRest(w, pc[w].include_suffix)[1][2],
                     ScanRest(w, pc[w].include_suffix)[1][1], FALSE, "yielded",
                     NoneKey)
  /\ UNCHANGED db
  /\ ReadFrame

\* lines 137-141: the scan has no further item
ScanEnd(w) ==
  /\ pc[w].state = "scan"
  /\ ScanRest(w, TRUE) = <<>>
  /\ pc' = [pc EXCEPT ![w] = NotReading]
  /\ last' = Outcome("ScanByType", w, NoValue, NoneKey, FALSE, "exhausted", NoneKey)
  /\ UNCHANGED db
  /\ ReadFrame

\* iter(collection): a generator function, nothing of lines 189-198 runs
\* before the first item is asked for
IterCall(w) ==
  /\ pc[w].state = "idle"
  /\ pc' = [pc EXCEPT ![w] = [NotReading EXCEPT !.state = "iter"]]
  /\ last' = Outcome("__iter__", w, NoValue, NoneKey, FALSE, "called", NoneKey)
  /\ UNCHANGED db
  /\ ReadFrame

\* lines 189-191, when the first item is asked for: ListStoredTypes()
IterListTypes(w) ==
  /\ pc[w].state = "iter"
  /\ ~pc[w].started
  /\ \E row \in ResolveRow(db, Row(urn)) :
       pc' = [pc EXCEPT ![w].started = TRUE, ![w].types = ListStoredTypes(row)]
  /\ last' = Outcome("__iter__", w, NoValue, NoneKey, FALSE, "listed", NoneKey)
  /\ UNCHANGED db
  /\ ReadFrame

\* lines 197-198: a read of the sub-collection being iterated finds its next
\* item, which is yielded
IterNext(w) ==
  /\ pc[w].state = "iter"
  /\ pc[w].started
  /\ pc[w].index <= Len(pc[w].types)
  /\ IterRest(w) # <<>>
  /\ LET item == IterRest(w)[1]
     IN /\ pc' = [pc EXCEPT ![w].pos = pc[w].pos + 1, ![w].cursor = item[1]]
        /\ last' = Outcome("__iter__", w, item[2], <<item[1][1]>>, FALSE,
                           "yielded", NoneKey)
  /\ UNCHANGED db
  /\ ReadFrame

\* lines 192-197: a read of the sub-collection being iterated finds no further
\* item; the loop of line 192 goes on to the next sub-collection, which is
\* read in a later step
IterNextType(w) ==
  /\ pc[w].state = "iter"
  /\ pc[w].started
  /\ pc[w].index <= Len(pc[w].types)
  /\ IterRest(w) = <<>>
  /\ pc' = [pc EXCEPT ![w].index = pc[w].index + 1, ![w].cursor = NoneKey]
  /\ last' = Outcome("__iter__", w, NoValue, NoneKey, FALSE, "next_type", NoneKey)
  /\ UNCHANGED db
  /\ ReadFrame

\* line 192: no sub-collection is left
IterEnd(w) ==
  /\ pc[w].state = "iter"
  /\ pc[w].started
  /\ pc[w].index > Len(pc[w].types)
  /\ pc' = [pc EXCEPT ![w] = NotReading]
  /\ last' = Outcome("__iter__", w, NoValue, NoneKey, FALSE, "exhausted", NoneKey)
  /\ UNCHANGED db
  /\ ReadFrame

\* the caller stops consuming: the generator is dropped
Abandon(w) ==
  /\ pc[w].state \in {"scan", "iter"}
  /\ pc' = [pc EXCEPT ![w] = NotReading]
  /\ last' = Outcome(IF pc[w].state = "scan" THEN "ScanByType" ELSE "__iter__", w,
                     NoValue, NoneKey, FALSE, "abandoned",
                     <<pc[w].pos,
                       IF pc[w].state = "scan" THEN Len(ScanRest(w, TRUE))
                       ELSE Len(pc[w].types) + 1 - pc[w].index>>)
  /\ UNCHANGED db
  /\ ReadFrame

\* lines 143-149
LengthByTypeCall(w) ==
  /\ pc[w].state = "idle"
  /\ \E type_name \in TypeNames :
       last' = Outcome("LengthByType", w, NoValue, NoneKey, FALSE, "returned",
                       <<LengthByType(db, type_name)>>)
  /\ UNCHANGED <<db, pc>>
  /\ ReadFrame

\* lines 201-204: len(collection) starts with ListStoredTypes()
LenCall(w) ==
  /\ pc[w].state = "idle"
  /\ \E row \in ResolveRow(db, Row(urn)) :
       pc' = [pc EXCEPT ![w] =
                [NotReading EXCEPT !.state = "len", !.started = TRUE,
                                   !.types = ListStoredTypes(row)]]
  /\ last' = Outcome("__len__", w, NoValue, NoneKey, FALSE, "listed", NoneKey)
  /\ UNCHANGED db
  /\ ReadFrame

\* lines 205-210: the length of the next sub-collection is added
LenAdd(w) ==
  /\ pc[w].state = "len"
  /\ pc[w].pos < Len(pc[w].types)
  /\ pc' = [pc EXCEPT ![w].pos = pc[w].pos + 1,
                      ![w].acc = pc[w].acc
                                   + LenTypes(db, <<pc[w].types[pc[w].pos + 1]>>)]
  /\ last' = Outcome("__len__", w, NoValue, NoneKey, FALSE, "counting", NoneKey)
  /\ UNCHANGED db
  /\ ReadFrame

\* line 212
LenReturn(w) ==
  /\ pc[w].state = "len"
  /\ pc[w].pos = Len(pc[w].types)
  /\ pc' = [pc EXCEPT ![w] = NotReading]
  /\ last' = Outcome("__len__", w, NoValue, NoneKey, FALSE, "returned",
                     <<pc[w].acc>>)
  /\ UNCHANGED db
  /\ ReadFrame

\* the other caller's Adds without a pool, each in its two writes: a payload
\* of either class, at a key before or after the reader's place
WrittenValues == {Payload("A", "x"), Payload("B", "x")}
WrittenKeys == {<<1, 5>>, <<2, 5>>}

WriterAppend(w) ==
  /\ AddAppend(w)
  /\ last'.rdf_value \in WrittenValues
  /\ last'.key \in WrittenKeys

NextReads ==
  \/ \E w \in Readers : ListStoredTypesCall(w)
  \/ \E w \in Readers : ScanByTypeCall(w)
  \/ \E w \in Readers : ScanNext(w)
  \/ \E w \in Readers : ScanEnd(w)
  \/ \E w \in Readers : IterCall(w)
  \/ \E w \in Readers : IterListTypes(w)
  \/ \E w \in Readers : IterNext(w)
  \/ \E w \in Readers : IterNextType(w)
  \/ \E w \in Readers : IterEnd(w)
  \/ \E w \in Readers : Abandon(w)
  \/ \E w \in Readers : LengthByTypeCall(w)
  \/ \E w \in Readers : LenCall(w)
  \/ \E w \in Readers : LenAdd(w)
  \/ \E w \in Readers : LenReturn(w)
  \/ \E w \in Writers \ Readers : WriterAppend(w)
  \/ \E w \in Writers \ Readers : AddMarker(w)
  \/ \E w \in Writers \ Readers : AddMarkerFail(w)

SpecReads == InitReads /\ [][NextReads]_vars

\* the step is a reader's: the other caller's Add has not moved
ReaderStep == \A w \in Writers \ Readers : pc'[w] = pc[w]

(* C16: reads have no side effects.  No step of a read (a call, an item     *)
(* taken from a scan or an iteration, a length added by len(), the end of a *)
(* generator, a generator dropped before its end) changes the store or      *)
(* stages a write: the per-type sequences and the listed types stay as      *)
(* they were, also while another caller's Add is between its two writes.    *)
C16_ReadStep ==
  ReaderStep =>
    /\ db' = db
    /\ mutation_pool' = mutation_pool
    /\ deletion_pool' = deletion_pool
    /\ \A T \in TypeNames :
         SequentialEntries(db', Add(urn, T)) = SequentialEntries(db, Add(urn, T))
    /\ MarkerCells(db') = MarkerCells(db)

C16_ReadsHaveNoSideEffects == [][C16_ReadStep]_vars

\* a scan was dropped after its first item, with items left
C16_Witness ==
  /\ last.op = "ScanByType"
  /\ last.status = "abandoned"
  /\ last.ret[1] = 1
  /\ last.ret[2] > 1
  /\ Markers(db) = {"A"}

-----------------------------------------------------------------------------
(* C19: ScanByType(type_name, after_timestamp, include_suffix, max_records). *)
(* On the store as it is, its i-th item is the entry of that type with the   *)
(* i-th smallest key among the keys strictly after after_timestamp (all keys *)
(* when it is not given), there are max_records items when that many entries *)
(* qualify and all of them otherwise, and the key is reported as             *)
(* (timestamp, suffix) with include_suffix and as the timestamp alone        *)
(* without.  What the generator yields is an entry of the type after         *)
(* after_timestamp, with the key in the asked shape, no more than            *)
(* max_records items; its first item is the first item of the scan, whatever *)
(* was read before the call; and with no write since the call its n-th item  *)
(* is the n-th item of the scan.                                             *)
C19_Qualifying(w) ==
  {c \in SequentialEntries(db, Add(urn, pc[w].value_type)) :
     \/ pc[w].after_timestamp = NoneKey
     \/ KeyLess(pc[w].after_timestamp, c.subject.key)}

C19_Scan(w) ==
  LET Q == C19_Qualifying(w)
      R == ScanByType(db, pc[w].value_type, pc[w].after_timestamp,
                      pc[w].include_suffix, pc[w].max_records)
  IN /\ Len(R) = IF pc[w].max_records = -1 \/ pc[w].max_records > Cardinality(Q)
                   THEN Cardinality(Q) ELSE pc[w].max_records
     /\ \A i \in 1..Len(R) :
          \E c \in Q :
            /\ Cardinality({d \in Q : KeyLess(d.subject.key, c.subject.key)}) = i - 1
            /\ R[i][2] = c.value
            /\ DerivedType(R[i][2]) = pc[w].value_type
            /\ R[i][1] = IF pc[w].include_suffix THEN c.subject.key
                         ELSE <<c.subject.key[1]>>
     /\ (last.op = "ScanByType" /\ last.status = "yielded") =>
          /\ pc[w].max_records = -1 \/ pc[w].pos <= pc[w].max_records
          /\ \E c \in Q :
               /\ last.rdf_value = c.value
               /\ last.key = IF pc[w].include_suffix THEN c.subject.key
                             ELSE <<c.subject.key[1]>>
          /\ (pc[w].pos = 1 \/ nAdds = 0) =>
               <<last.key, last.rdf_value>> = R[pc[w].pos]

C19_ScanByType == \A w \in Readers : pc[w].state = "scan" => C19_Scan(w)

\* a scan of A after (1, 5), with the suffix, of at most 2 items, has yielded
\* its second item, and a third entry qualifies
C19_Witness ==
  /\ pc["w1"].state = "scan"
  /\ pc["w1"].value_type = "A"
  /\ pc["w1"].after_timestamp = <<1, 5>>
  /\ pc["w1"].include_suffix
  /\ pc["w1"].max_records = 2
  /\ pc["w1"].pos = 2
  /\ last.status = "yielded"
  /\ last.key = <<2, 5>>
  /\ Cardinality(C19_Qualifying("w1")) = 3
  /\ LengthByType(db, "A") = 4

-----------------------------------------------------------------------------
(* The iteration alone, item by item, on a collection that holds entries,   *)
(* beside the other caller's Adds.                                          *)
NextIter ==
  \/ \E w \in Readers : IterCall(w)
  \/ \E w \in Readers : IterListTypes(w)
  \/ \E w \in Readers : IterNext(w)
  \/ \E w \in Readers : IterNextType(w)
  \/ \E w \in Readers : IterEnd(w)
  \/ \E w \in Readers : Abandon(w)
  \/ \E w \in Writers \ Readers : WriterAppend(w)
  \/ \E w \in Writers \ Readers : AddMarker(w)
  \/ \E w \in Writers \ Readers : AddMarkerFail(w)

SpecIter == InitReads /\ [][NextIter]_vars

(* C13: iterating all entries yields, for each type in the order            *)
(* ListStoredTypes() returned them, that type's complete sequence in        *)
(* ascending key order before any entry of the next type.  On every store   *)
(* and for every order of the row, the entries of one type form one         *)
(* contiguous block, the blocks follow the listed order and not the         *)
(* timestamps, and every entry of every listed type is there exactly once   *)
(* (C13_Blocks).  The generator, taken item by item, yields an entry of the *)
(* sub-collection it is in, never of an earlier one, and with no write      *)
(* since the collection was opened its n-th item is the n-th of the blocks. *)
C13_Generator(w) ==
  (pc[w].state = "iter" /\ last.op = "__iter__" /\ last.status = "yielded") =>
    /\ pc[w].index \in 1..Len(pc[w].types)
    /\ DerivedType(last.rdf_value) = pc[w].types[pc[w].index]
    /\ nAdds = 0 =>
         /\ pc[w].pos = BlockStart(pc[w].types, pc[w].index)
                          + LengthByType(db, pc[w].types[pc[w].index])
                          - Len(IterRest(w))
         /\ <<last.key, last.rdf_value>> = IterTypes(db, pc[w].types)[pc[w].pos]

C13_IterationOrder ==
  [](/\ \A row \in ResolveRow(db, Row(urn)) : C13_Blocks(row)
     /\ \A w \in Readers : C13_Generator(w))

\* A, listed first, has four entries and B one, at a timestamp below A's last
\* two: the generator has yielded A's four and then B's
C13_Witness ==
  /\ pc["w1"].state = "iter"
  /\ pc["w1"].types = <<"A", "B">>
  /\ pc["w1"].pos = 5
  /\ pc["w1"].index = 2
  /\ last.status = "yielded"
  /\ last.key = <<1>>
  /\ DerivedType(last.rdf_value) = "B"
  /\ IterTypes(db, pc["w1"].types)[4][1] = <<2>>
  /\ LengthByType(db, "A") = 4

====
